---- MODULE Spec2Model ----
(***************************************************************************)
(* The asynchronous render-job pipeline of ai-openscad:                    *)
(*   backend/app/core/render_manager.py   RenderManager (submit, status)   *)
(*   render-service/app/queue_processor.py RenderQueueProcessor            *)
(*   render-service/app/renderer.py       OpenSCADRenderer                 *)
(*   backend/app/api/v1/render.py         the endpoints                    *)
(*   backend/app/utils/security.py        validate_scad_code               *)
(*   backend/app/core/cleanup.py          FileCleanup (the sweeper)        *)
(*   render-service/app/main.py           main (the service's start)       *)
(* The backend and the render service are separate processes that share    *)
(* only Redis (the list render_queue, the keys job:{job_id}) and the data  *)
(* directory; every Redis command and every file operation is one step.    *)
(*                                                                         *)
(* Python strings are modelled as sequences of tokens: a token is either   *)
(* one whitespace character or an opaque run of non-whitespace text, so    *)
(* that concatenation, strip(), join() and truthiness are computed.        *)
(* An Optional[str] is <<>> for None and <<s>> for the string s.           *)
(* A dict is a function whose domain is the set of its keys.               *)
(***************************************************************************)
EXTENDS Integers, Sequences, FiniteSets, TLC

VARIABLES
    pc,          \* pc[j]: position of the request that submits job j
    request,     \* request[j]: the RenderRequest body (format) of job j
    scad_files,  \* files present in DATA_PATH/scad_files, by job id
    renders,     \* files present in DATA_PATH/renders, by job id
    exports,     \* files present in DATA_PATH/exports, by job id
    render_queue,\* the Redis list render_queue, leftmost element first
    store,       \* the Redis keys job:{job_id}: job id -> serialized record
    running,     \* the processor instances that are running
    tools,       \* what a run of the openscad binary can do in this deployment
    ppc,         \* ppc[p]: position of processor p in run()/process_job()
    job,         \* job[p]: the local dict `job` of process_job
    errors,      \* errors[p]: the local list `errors` of process_job
    results,     \* results[j]: what render_png / render_stl returned for j
    final,       \* final[j]: the record process_job persisted last for j
    response,    \* the answer of the request the backend handled last
    codes,       \* the scripts that clients send in this deployment
    mtime,       \* mtime[<<directory, id>>]: st_mtime of each file present
    logs,        \* files present in DATA_PATH/logs
    now,         \* time.time(), in seconds
    sweep,       \* the locals of the cleanup_old_files call in progress
    sweeps,      \* what the calls of cleanup_old_files returned, in order
    calls,       \* calls[p]: the render_png call of processor p, step by step
    display,     \* the caller whose Xvfb serves display :99, if any
    shutdown     \* the render service has been asked to stop

\* the variables that the render pipeline itself never writes
aside == <<codes, logs, now, sweep, sweeps, calls, display, shutdown>>

vars == <<pc, request, scad_files, renders, exports, render_queue, store,
          running, tools, ppc, job, errors, results, final, response, mtime,
          aside>>

-----------------------------------------------------------------------------
(* Bounds *)

MaxJobs == 2
MaxSweeps == 2

Jobs == 1..MaxJobs
Procs == {"p1", "p2"}

-----------------------------------------------------------------------------
(* Strings, Optional[str], dicts *)

Whitespace == {" ", "\n"}

\* bool(s) of a str
Truthy(s) == Len(s) > 0

RECURSIVE LStrip(_)
LStrip(s) == IF s # <<>> /\ Head(s) \in Whitespace THEN LStrip(Tail(s)) ELSE s

RECURSIVE RStrip(_)
RStrip(s) ==
    IF s # <<>> /\ s[Len(s)] \in Whitespace
    THEN RStrip(SubSeq(s, 1, Len(s) - 1))
    ELSE s

\* str.strip()
Strip(s) == RStrip(LStrip(s))

\* sep.join(list)
RECURSIVE Join(_, _)
Join(sep, list) ==
    IF list = <<>> THEN <<>>
    ELSE IF Len(list) = 1 THEN list[1]
    ELSE list[1] \o sep \o Join(sep, Tail(list))

\* t in s, for two str
Contains(s, t) ==
    \E i \in 1..(Len(s) + 1) :
        /\ i + Len(t) - 1 <= Len(s)
        /\ SubSeq(s, i, i + Len(t) - 1) = t

None == <<>>
Some(s) == <<s>>
\* bool(x) of an Optional[str]
TruthyOpt(x) == x # None /\ Truthy(x[1])

EmptyDict == [k \in {} |-> k]
\* d[k] = v
Put(d, k, v) == [x \in (DOMAIN d) \cup {k} |-> IF x = k THEN v ELSE d[x]]
Has(d, k) == k \in DOMAIN d

\* A file of a directory is written at time t: it exists and its st_mtime is t
Touch(m, directory, id, t) ==
    [f \in (DOMAIN m) \cup {<<directory, id>>} |->
        IF f = <<directory, id>> THEN t ELSE m[f]]

\* json.dumps / json.loads: the stored value is a serialized blob
Dumps(d) == [json |-> d]
Loads(s) == s.json

-----------------------------------------------------------------------------
(* render-service/app/renderer.py *)

RENDER_TIMEOUT == 120

\* What one run of the openscad binary can do: exit with a return code and
\* a stderr text, having written the output file or not; exceed the
\* timeout and be killed, before or after it began to write the output
\* file; or fail to start (an exception other than TimeoutExpired).
Stderrs == {<<>>, <<"\n">>, <<" ", "ERROR: syntax error", "\n">>}

ToolExits ==
    [kind : {"exit"}, returncode : {0}, stderr : Stderrs,
     creates : BOOLEAN, msg : {<<>>}]
    \cup [kind : {"exit"}, returncode : {1}, stderr : Stderrs,
          creates : BOOLEAN, msg : {<<>>}]

ToolRuns ==
    ToolExits
    \cup [kind : {"timeout"}, returncode : {0}, stderr : {<<>>},
          creates : BOOLEAN, msg : {<<>>}]
    \cup [kind : {"raise"}, returncode : {0}, stderr : {<<>>},
          creates : {FALSE}, msg : {<<"[Errno 2] No such file or directory">>}]

\* The runs the pipeline is explored with: one per kind of result that
\* process_job tells apart (success, failure without a reason text, failure
\* with a reason text)
PipelineRuns ==
    {t \in ToolExits :
        \/ t.returncode = 0 /\ t.creates /\ t.stderr = <<>>
        \/ t.returncode = 1 /\ ~t.creates /\ t.stderr # <<>>}

Ok == [success |-> TRUE, error |-> None]
Fail(error_msg) == [success |-> FALSE, error |-> Some(error_msg)]

\* render_png whose timeout branch gives no reason
render_png_TimeoutUnnamed(tool, exists) ==
    IF tool.kind = "timeout"
    THEN Fail(<<>>)
    ELSE IF tool.kind = "raise"
    THEN Fail(<<"Rendering error: ">> \o tool.msg)
    ELSE IF tool.returncode # 0
    THEN Fail(IF Truthy(tool.stderr) THEN Strip(tool.stderr)
                                     ELSE <<"OpenSCAD rendering failed">>)
    ELSE IF ~exists
    THEN Fail(<<"Preview image not created">>)
    ELSE Ok

\* render_png, given what the tool did and whether output_file exists after it
render_png(tool, exists) ==
    IF tool.kind = "timeout"
    THEN Fail(<<"Rendering timeout (", ToString(RENDER_TIMEOUT), "s exceeded)">>)
    ELSE IF tool.kind = "raise"
    THEN Fail(<<"Rendering error: ">> \o tool.msg)
    ELSE IF tool.returncode # 0
    THEN Fail(IF Truthy(tool.stderr) THEN Strip(tool.stderr)
                                     ELSE <<"OpenSCAD rendering failed">>)
    ELSE IF ~exists
    THEN Fail(<<"Preview image not created">>)
    ELSE Ok

\* render_stl without the test of output_file.exists()
render_stl_Unverified(tool, exists) ==
    IF tool.kind = "timeout"
    THEN Fail(<<"STL rendering timeout (", ToString(RENDER_TIMEOUT), "s exceeded)">>)
    ELSE IF tool.kind = "raise"
    THEN Fail(<<"STL rendering error: ">> \o tool.msg)
    ELSE IF tool.returncode # 0
    THEN Fail(IF Truthy(tool.stderr) THEN Strip(tool.stderr)
                                     ELSE <<"STL generation failed">>)
    ELSE Ok

\* render_stl, likewise
render_stl(tool, exists) ==
    IF tool.kind = "timeout"
    THEN Fail(<<"STL rendering timeout (", ToString(RENDER_TIMEOUT), "s exceeded)">>)
    ELSE IF tool.kind = "raise"
    THEN Fail(<<"STL rendering error: ">> \o tool.msg)
    ELSE IF tool.returncode # 0
    THEN Fail(IF Truthy(tool.stderr) THEN Strip(tool.stderr)
                                     ELSE <<"STL generation failed">>)
    ELSE IF ~exists
    THEN Fail(<<"STL file not created">>)
    ELSE Ok

-----------------------------------------------------------------------------
(* renderer.py, render_png step by step: the Xvfb it starts, the openscad   *)
(* subprocess it runs, and display :99 that every call uses                *)

NoCall ==
    [pc |-> "idle", xvfb |-> "none", openscad |-> "none",
     tool |-> EmptyDict, result |-> EmptyDict]

\* the files and records of the system, which a render_png call taken by
\* itself does not touch
outside == <<pc, request, scad_files, renders, exports, render_queue, store,
             running, tools, ppc, job, errors, results, final, response, mtime,
             codes, logs, now, sweep, sweeps, shutdown>>

\* line 35: render_png is called
render_png_call(p) ==
    /\ p \in running
    /\ calls[p].pc = "idle"
    /\ calls' = [calls EXCEPT ![p] = [NoCall EXCEPT !.pc = "Popen"]]
    /\ UNCHANGED <<outside, display>>

\* lines 54-58: Xvfb is started on :99; it serves the display if no other
\* X server does
render_png_Popen(p) ==
    /\ calls[p].pc = "Popen"
    /\ calls' = [calls EXCEPT ![p].pc = "run", ![p].xvfb = "running"]
    /\ display' = IF display = "none" THEN p ELSE display
    /\ UNCHANGED outside

\* lines 54-58 raise (no Xvfb binary): lines 93-96
render_png_Popen_raises(p) ==
    /\ calls[p].pc = "Popen"
    /\ calls' = [calls EXCEPT
          ![p].pc = "returned",
          ![p].result = Fail(<<"Rendering error: ",
                               "[Errno 2] No such file or directory: 'Xvfb'">>)]
    /\ UNCHANGED <<outside, display>>

\* an Xvfb that finds :99 served by another X server gives up
Xvfb_exits(p) ==
    /\ calls[p].xvfb = "running"
    /\ display # p
    /\ calls' = [calls EXCEPT ![p].xvfb = "exited"]
    /\ UNCHANGED <<outside, display>>

\* lines 62-70: subprocess.run starts openscad, or raises at once
render_png_run(p, tool) ==
    /\ calls[p].pc = "run"
    /\ calls' = [calls EXCEPT
          ![p].tool = tool,
          ![p].openscad = IF tool.kind = "raise" THEN "none" ELSE "running",
          ![p].pc = IF tool.kind = "raise" THEN "finally" ELSE "communicate"]
    /\ UNCHANGED <<outside, display>>

\* lines 64-70: openscad exits, or the timeout expires and subprocess.run
\* kills it and waits for it
render_png_communicate(p) ==
    /\ calls[p].pc = "communicate"
    /\ calls' = [calls EXCEPT
          ![p].openscad = IF calls[p].tool.kind = "timeout" THEN "killed"
                                                           ELSE "exited",
          ![p].pc = "finally"]
    /\ UNCHANGED <<outside, display>>

\* a finally clause that is run only when the tool has exited by itself
render_png_finally_NotOnTimeout(p) ==
    /\ calls[p].pc = "finally"
    /\ LET kept == calls[p].tool.kind = "timeout"
       IN  /\ calls' = [calls EXCEPT
                 ![p].xvfb = IF kept THEN @ ELSE "exited",
                 ![p].pc = "returned",
                 ![p].result = render_png(calls[p].tool, calls[p].tool.creates)]
           /\ display' = IF display = p /\ ~kept THEN "none" ELSE display
    /\ UNCHANGED outside

\* lines 72-96: the finally clause (xvfb.terminate(); xvfb.wait()) is run on
\* every way out of the inner try, then the result is returned
render_png_finally(p) ==
    /\ calls[p].pc = "finally"
    /\ calls' = [calls EXCEPT
          ![p].xvfb = "exited",
          ![p].pc = "returned",
          ![p].result = render_png(calls[p].tool, calls[p].tool.creates)]
    /\ display' = IF display = p THEN "none" ELSE display
    /\ UNCHANGED outside

\* the caller goes on
render_png_done(p) ==
    /\ calls[p].pc = "returned"
    /\ calls' = [calls EXCEPT ![p] = NoCall]
    /\ UNCHANGED <<outside, display>>

-----------------------------------------------------------------------------
(* backend/app/utils/security.py, backend/app/config.py *)

MAX_CODE_SIZE == 100000

\* A comment of exactly MAX_CODE_SIZE characters, as one token
Padding == "/* padding */"

\* len() of one token, in characters
TokenLen(t) == IF t = Padding THEN MAX_CODE_SIZE
               ELSE IF t \in Whitespace \cup {"<", ">"} THEN 1
               ELSE IF t \in {"use", "../"} THEN 3
               ELSE IF t = "import" THEN 6
               ELSE 8

\* len(code)
RECURSIVE StrLen(_)
StrLen(s) == IF s = <<>> THEN 0 ELSE TokenLen(Head(s)) + StrLen(Tail(s))

\* re.search(keyword + r'\s*<.*\.\./.*>', code): the keyword, any whitespace,
\* '<', then '../' and '>' later on the same line ('.' matches no newline)
PathTraversal(keyword, code) ==
    \E i \in 1..Len(code) :
        /\ code[i] = keyword
        /\ \E a \in (i+1)..Len(code) :
              /\ code[a] = "<"
              /\ \A k \in (i+1)..(a-1) : code[k] \in Whitespace
              /\ \E b \in (a+1)..Len(code) :
                    /\ code[b] = "../"
                    /\ \E c \in (b+1)..Len(code) :
                          /\ code[c] = ">"
                          /\ \A k \in (a+1)..(c-1) : code[k] # "\n"

\* validate_scad_code: (is_valid, errors)
validate_scad_code(code) ==
    LET e1 == IF PathTraversal("import", code)
              THEN <<<<"Path traversal in import statement">>>> ELSE <<>>
        e2 == IF PathTraversal("use", code)
              THEN <<<<"Path traversal in use statement">>>> ELSE <<>>
        e3 == IF StrLen(code) > MAX_CODE_SIZE
              THEN <<<<"Code exceeds size limit (", ToString(MAX_CODE_SIZE),
                       " bytes)">>>>
              ELSE <<>>
        e4 == IF ~Truthy(Strip(code))
              THEN <<<<"Code cannot be empty">>>> ELSE <<>>
        errs == e1 \o e2 \o e3 \o e4
    IN  [is_valid |-> Len(errs) = 0, errors |-> errs]

\* A script that passes validation
Script == <<"cube(1);">>

\* Scripts that pass: Script, one of exactly MAX_CODE_SIZE characters, and
\* an import whose '../' is on another line than its '<'
ValidScripts ==
    {Script, <<Padding>>, <<"import", " ", "<", "\n", "../", "lib.scad", ">">>}

\* Scripts that fail: empty, blank, one character too long, path traversal
\* in an import or a use statement, and two of these at once
InvalidScripts ==
    {<<>>, <<" ", "\n">>, <<Padding, "\n">>,
     <<"import", " ", "<", "../", "lib.scad", ">">>,
     <<"use", "<", "../", "lib.scad", ">", "\n", "cube(1);">>,
     <<Padding, "use", " ", "<", "lib.scad", "../", ">">>}

\* fastapi.HTTPException(status_code, detail)
HTTPException(status_code, detail) ==
    [status_code |-> status_code, detail |-> detail]

-----------------------------------------------------------------------------
(* backend/app/core/render_manager.py *)

\* The formats the API documents: 'png', 'stl' or 'both'
Formats == {"png", "stl", "both"}

\* data_path / "scad_files" / f"{job_id}.scad"
ScadPath(job_id) == <<"data/scad_files/", ToString(job_id), ".scad">>

\* job_data of submit_render_job
JobData(job_id, format) ==
    [job_id |-> job_id, scad_path |-> ScadPath(job_id),
     format |-> format, status |-> "queued"]

\* redis.setex(f'job:{job_id}', 3600, value)
Setex(s, job_id, value) ==
    [k \in (DOMAIN s) \cup {job_id} |-> IF k = job_id THEN value ELSE s[k]]

\* What a handler of the backend hands back: the call, its job id, its result
Answer(call, job_id, body) == [call |-> call, job_id |-> job_id, body |-> body]
NoAnswer == Answer("none", 0, EmptyDict)

\* uuid4 never repeats: the k-th request to arrive is given job id k
Fresh(j) == /\ pc[j] = "start"
            /\ \A i \in Jobs : i < j => pc[i] # "start"

\* The backend is one uvicorn process with one event loop (main.py), and
\* submit_render_job and get_job_status never await inside: a handler runs
\* to its end before the loop takes up another request.
LoopBusy == \E i \in Jobs : pc[i] \in {"saved", "pushed"}

\* api/v1/render.py lines 40-45: what the endpoint answers to a script that
\* fails validation; render_manager is not called
submit_rejected(code) ==
    /\ ~LoopBusy
    /\ ~validate_scad_code(code).is_valid
    /\ response' = Answer("submit_render_job", 0,
                          HTTPException(400, <<"Code validation failed: ">>
                              \o Join(<<", ">>, validate_scad_code(code).errors)))
    /\ UNCHANGED <<aside, mtime, pc, request, scad_files, renders, exports, render_queue,
                   store, running, tools, ppc, job, errors, results, final>>

\* the endpoint without its validation: every script goes to render_manager
submit_write_text_Unvalidated(j, code, format) ==
    /\ Fresh(j)
    /\ ~LoopBusy
    /\ request' = [request EXCEPT ![j] = [code |-> code, format |-> format]]
    /\ scad_files' = scad_files \cup {j}
    /\ mtime' = Touch(mtime, "scad_files", j, now)
    /\ pc' = [pc EXCEPT ![j] = "saved"]
    /\ UNCHANGED <<aside, renders, exports, render_queue, store, running, tools,
                   ppc, job, errors, results, final, response>>

\* submit_render_job going on to the lpush without having written the
\* script
submit_write_text_Unwritten(j, code, format) ==
    /\ Fresh(j)
    /\ ~LoopBusy
    /\ validate_scad_code(code).is_valid
    /\ request' = [request EXCEPT ![j] = [code |-> code, format |-> format]]
    /\ pc' = [pc EXCEPT ![j] = "saved"]
    /\ UNCHANGED <<aside, mtime, scad_files, renders, exports, render_queue, store,
                   running, tools, ppc, job, errors, results, final, response>>

\* api/v1/render.py lines 40-48 and render_manager.py lines 31-36: a request
\* arrives and passes validation, the job id is drawn, the script is saved
submit_write_text(j, code, format) ==
    /\ Fresh(j)
    /\ ~LoopBusy
    /\ validate_scad_code(code).is_valid
    /\ request' = [request EXCEPT ![j] = [code |-> code, format |-> format]]
    /\ scad_files' = scad_files \cup {j}
    /\ mtime' = Touch(mtime, "scad_files", j, now)
    /\ pc' = [pc EXCEPT ![j] = "saved"]
    /\ UNCHANGED <<aside, renders, exports, render_queue, store, running, tools, ppc, job,
                   errors, results, final, response>>

\* line 47: redis.lpush('render_queue', json.dumps(job_data))
submit_lpush(j) ==
    /\ pc[j] = "saved"
    /\ render_queue' = <<Dumps(JobData(j, request[j].format))>> \o render_queue
    /\ pc' = [pc EXCEPT ![j] = "pushed"]
    /\ UNCHANGED <<aside, mtime, request, scad_files, renders, exports, store, running, tools, ppc,
                   job, errors, results, final, response>>

\* submit_render_job without its setex: the record is never created
submit_setex_Skipped(j) ==
    /\ pc[j] = "pushed"
    /\ pc' = [pc EXCEPT ![j] = "returned"]
    /\ response' = [call |-> "submit_render_job", job_id |-> j,
                    body |-> [job_id |-> j]]
    /\ UNCHANGED <<aside, mtime, request, scad_files, renders, exports, render_queue, store,
                   running, tools, ppc, job, errors, results, final>>

\* lines 50-53: redis.setex(f'job:{job_id}', 3600, json.dumps(job_data));
\* return job_id
submit_setex(j) ==
    /\ pc[j] = "pushed"
    /\ store' = Setex(store, j, Dumps(JobData(j, request[j].format)))
    /\ pc' = [pc EXCEPT ![j] = "returned"]
    /\ response' = Answer("submit_render_job", j, [job_id |-> j])
    /\ UNCHANGED <<aside, mtime, request, scad_files, renders, exports, render_queue, running,
                   tools, ppc, job, errors, results, final>>

\* str(e) of the redis.exceptions.ConnectionError a command raises when the
\* Redis server cannot be reached
ConnectionError == <<"Error 111 connecting to redis:6379. Connection refused.">>

\* api/v1/render.py lines 59-61: what the endpoint answers when
\* render_manager.submit_render_job raised
SubmitFailed(j) ==
    Answer("submit_render_job", j,
           HTTPException(500, <<"Failed to submit render job: ">> \o ConnectionError))

\* line 47 raises: Redis is unreachable when the entry is to be pushed
submit_lpush_raises(j) ==
    /\ pc[j] = "saved"
    /\ pc' = [pc EXCEPT ![j] = "error"]
    /\ response' = SubmitFailed(j)
    /\ UNCHANGED <<aside, mtime, request, scad_files, renders, exports, render_queue,
                   store, running, tools, ppc, job, errors, results, final>>

\* line 50 raises: Redis has become unreachable after the entry was pushed
submit_setex_raises(j) ==
    /\ pc[j] = "pushed"
    /\ pc' = [pc EXCEPT ![j] = "error"]
    /\ response' = SubmitFailed(j)
    /\ UNCHANGED <<aside, mtime, request, scad_files, renders, exports, render_queue,
                   store, running, tools, ppc, job, errors, results, final>>

\* dict.get(k) is truthy
GetTruthy(d, k) == Has(d, k) /\ Truthy(d[k])

\* lines 67-86: the answer of get_job_status, given the Redis keys
JobStatus(s, job_id) ==
    IF job_id \notin DOMAIN s
    THEN [raised |-> "ValueError"]
    ELSE LET j0 == Loads(s[job_id])
             r0 == [job_id |-> job_id,
                    status |-> IF Has(j0, "status") THEN j0.status ELSE "unknown"]
             r1 == IF GetTruthy(j0, "preview_url")
                   THEN Put(r0, "preview_url", j0.preview_url) ELSE r0
             r2 == IF GetTruthy(j0, "stl_url")
                   THEN Put(r1, "stl_url", j0.stl_url) ELSE r1
         IN  IF GetTruthy(j0, "error") THEN Put(r2, "error", j0.error) ELSE r2

\* The caller asks for the status immediately after submit_render_job
\* returned the job id: it is the next request the backend handles.
get_job_status(j) ==
    /\ pc[j] = "returned"
    /\ ~LoopBusy
    /\ response = Answer("submit_render_job", j, [job_id |-> j])
    /\ response' = Answer("get_job_status", j, JobStatus(store, j))
    /\ UNCHANGED <<aside, mtime, pc, request, scad_files, renders, exports, render_queue,
                   store, running, tools, ppc, job, errors, results, final>>

\* Redis removes job:{job_id} when 3600 seconds have passed since the last
\* setex of the key (render_manager.py line 50, queue_processor.py lines 55
\* and 96).  That is longer than a handler of the backend or a process_job
\* takes: no handler is running and no processor holds the job.
expire(j) ==
    /\ j \in DOMAIN store
    /\ ~LoopBusy
    /\ \A p \in running : Has(job[p], "job_id") => job[p].job_id # j
    /\ store' = [k \in (DOMAIN store) \ {j} |-> store[k]]
    /\ UNCHANGED <<aside, mtime, pc, request, scad_files, renders, exports, render_queue,
                   running, tools, ppc, job, errors, results, final, response>>

\* GET /{job_id} answering what the final write of the job stored, whether
\* the key is still there or not
get_render_status_Remembered(job_id) ==
    /\ ~LoopBusy
    /\ response' = Answer("get_render_status", job_id,
                          IF job_id \in DOMAIN final
                          THEN JobStatus(Setex(store, job_id, Dumps(final[job_id])), job_id)
                          ELSE IF "raised" \in DOMAIN JobStatus(store, job_id)
                          THEN HTTPException(404, <<"Job not found: ", ToString(job_id)>>)
                          ELSE JobStatus(store, job_id))
    /\ UNCHANGED <<aside, mtime, pc, request, scad_files, renders, exports, render_queue,
                   store, running, tools, ppc, job, errors, results, final>>

\* api/v1/render.py lines 64-74: GET /{job_id}, at any time and for any job
\* id; the ValueError of get_job_status becomes 404
get_render_status(job_id) ==
    /\ ~LoopBusy
    /\ response' = Answer("get_render_status", job_id,
                          IF "raised" \in DOMAIN JobStatus(store, job_id)
                          THEN HTTPException(404, <<"Job not found: ", ToString(job_id)>>)
                          ELSE JobStatus(store, job_id))
    /\ UNCHANGED <<aside, mtime, pc, request, scad_files, renders, exports, render_queue,
                   store, running, tools, ppc, job, errors, results, final>>

-----------------------------------------------------------------------------
(* backend/app/api/v1/render.py: artifact retrieval *)

\* fastapi.responses.FileResponse(path, media_type, filename)
FileResponse(path, media_type, filename) ==
    [status_code |-> 200, path |-> path, media_type |-> media_type,
     filename |-> filename]

\* get_preview that looks for the script of the job instead of its image
get_preview_ByScript(job_id) ==
    /\ ~LoopBusy
    /\ response' = Answer("get_preview", job_id,
           IF job_id \notin scad_files
           THEN HTTPException(404, <<"Preview not found">>)
           ELSE FileResponse(<<"data/renders/", ToString(job_id), ".png">>,
                             "image/png", <<ToString(job_id), ".png">>))
    /\ UNCHANGED <<aside, mtime, pc, request, scad_files, renders, exports, render_queue,
                   store, running, tools, ppc, job, errors, results, final>>

\* lines 77-89; job_id is whatever the caller puts in the URL
get_preview(job_id) ==
    /\ ~LoopBusy
    /\ response' = Answer("get_preview", job_id,
           IF job_id \notin renders
           THEN HTTPException(404, <<"Preview not found">>)
           ELSE FileResponse(<<"data/renders/", ToString(job_id), ".png">>,
                             "image/png", <<ToString(job_id), ".png">>))
    /\ UNCHANGED <<aside, mtime, pc, request, scad_files, renders, exports, render_queue,
                   store, running, tools, ppc, job, errors, results, final>>

\* lines 92-105
download_stl(job_id) ==
    /\ ~LoopBusy
    /\ response' = Answer("download_stl", job_id,
           IF job_id \notin exports
           THEN HTTPException(404, <<"STL file not found">>)
           ELSE FileResponse(<<"data/exports/", ToString(job_id), ".stl">>,
                             "application/sla",
                             <<"model_", ToString(job_id), ".stl">>))
    /\ UNCHANGED <<aside, mtime, pc, request, scad_files, renders, exports, render_queue,
                   store, running, tools, ppc, job, errors, results, final>>

-----------------------------------------------------------------------------
(* backend/app/core/cleanup.py, backend/app/main.py                        *)
(*                                                                         *)
(* main.py creates the data directory and its four subdirectories at       *)
(* startup (lines 80-83), so the `not exists()` branches of lines 35-37    *)
(* and 52-53 are not taken.                                                *)

max_age_hours == 24
SLEEP == 3600

\* line 25
max_age_seconds == max_age_hours * 3600

\* The clock: the time the system starts at, and the time after the sleep
\* of cleanup_task_loop
T0 == 2 * max_age_seconds
Instants == {T0, T0 + SLEEP}

\* Modification times of the files found at the start: older than the
\* retention age, exactly as old as it, and new
Old == T0 - max_age_seconds - 1
Edge == T0 - max_age_seconds
New == T0
Ages == {Old, Edge, New}

Directories == {"scad_files", "renders", "exports", "logs"}

\* lines 45-49
directories_to_clean == <<"scad_files", "renders", "logs">>

\* the files of a directory, by id
Present(directory) ==
    CASE directory = "scad_files" -> scad_files
      [] directory = "renders" -> renders
      [] directory = "exports" -> exports
      [] directory = "logs" -> logs

\* st_size of a file: nothing in the code constrains it
st_size(directory, id) == id

\* directory.iterdir(), in the order of the ids
RECURSIVE iterdir(_)
iterdir(ids) ==
    IF ids = {} THEN <<>>
    ELSE LET x == CHOOSE x \in ids : \A y \in ids : x <= y
         IN  <<x>> \o iterdir(ids \ {x})

\* The locals of a run of cleanup_old_files and where it is; and, to tell
\* what a run did: the files found when it began, the files for which
\* stat() or unlink() raised, the number of listings that raised
NoSweep ==
    [pc |-> "idle", cutoff_time |-> 0, dirs |-> <<>>, directory |-> "",
     todo |-> <<>>, deleted_count |-> 0, error_count |-> 0, freed_bytes |-> 0,
     added |-> FALSE, found |-> {}, raised |-> {}, scan_errors |-> 0]

\* the four directories after file id of the directory is removed / written
Unlink(directory, id) ==
    /\ scad_files' = IF directory = "scad_files" THEN scad_files \ {id} ELSE scad_files
    /\ renders' = IF directory = "renders" THEN renders \ {id} ELSE renders
    /\ exports' = IF directory = "exports" THEN exports \ {id} ELSE exports
    /\ logs' = IF directory = "logs" THEN logs \ {id} ELSE logs
    /\ mtime' = [f \in (DOMAIN mtime) \ {<<directory, id>>} |-> mtime[f]]

Write(directory, id) ==
    /\ scad_files' = IF directory = "scad_files" THEN scad_files \cup {id} ELSE scad_files
    /\ renders' = IF directory = "renders" THEN renders \cup {id} ELSE renders
    /\ exports' = IF directory = "exports" THEN exports \cup {id} ELSE exports
    /\ logs' = IF directory = "logs" THEN logs \cup {id} ELSE logs
    /\ mtime' = Touch(mtime, directory, id, now)

pipeline == <<pc, request, render_queue, store, running, tools, ppc, job, errors,
              results, final, response, codes, calls, display, shutdown>>

\* main.py line 54, cleanup.py lines 39-49: a run of cleanup_old_files begins
cleanup_begin ==
    /\ sweep.pc = "idle"
    /\ Len(sweeps) < MaxSweeps
    /\ sweep' = [sweep EXCEPT !.pc = "dirs",
                              !.cutoff_time = now - max_age_seconds,
                              !.dirs = directories_to_clean,
                              !.found = DOMAIN mtime]
    /\ UNCHANGED <<pipeline, scad_files, renders, exports, logs, mtime, now, sweeps>>

\* lines 51-56: the next directory is listed
cleanup_iterdir ==
    /\ sweep.pc = "dirs"
    /\ sweep.dirs # <<>>
    /\ LET d == Head(sweep.dirs)
           l == iterdir(Present(d))
       IN  sweep' = [sweep EXCEPT !.dirs = Tail(sweep.dirs),
                                  !.directory = d,
                                  !.todo = l,
                                  !.pc = IF l = <<>> THEN "dirs" ELSE "files"]
    /\ UNCHANGED <<pipeline, scad_files, renders, exports, logs, mtime, now, sweeps>>

\* lines 60-68 for a file that is left where it is although it is old
cleanup_file_Kept ==
    /\ sweep.pc = "files"
    /\ LET d == sweep.directory
           id == Head(sweep.todo)
           old == id \in Present(d) /\ mtime[<<d, id>>] < sweep.cutoff_time
           rest == Tail(sweep.todo)
       IN  /\ sweep' = [sweep EXCEPT
                  !.todo = rest,
                  !.pc = IF rest = <<>> THEN "dirs" ELSE "files",
                  !.deleted_count = IF old THEN @ + 1 ELSE @,
                  !.freed_bytes = IF old THEN @ + st_size(d, id) ELSE @]
    /\ UNCHANGED <<pipeline, scad_files, renders, exports, logs, mtime, now, sweeps>>

\* lines 60-68: the next file of the directory is examined, and deleted if
\* its st_mtime is before cutoff_time
cleanup_file ==
    /\ sweep.pc = "files"
    /\ LET d == sweep.directory
           id == Head(sweep.todo)
           old == id \in Present(d) /\ mtime[<<d, id>>] < sweep.cutoff_time
           rest == Tail(sweep.todo)
       IN  /\ sweep' = [sweep EXCEPT
                  !.todo = rest,
                  !.pc = IF rest = <<>> THEN "dirs" ELSE "files",
                  !.deleted_count = IF old THEN @ + 1 ELSE @,
                  !.freed_bytes = IF old THEN @ + st_size(d, id) ELSE @]
           /\ IF old THEN Unlink(d, id)
                     ELSE UNCHANGED <<scad_files, renders, exports, logs, mtime>>
    /\ UNCHANGED <<pipeline, now, sweeps>>

\* an error at one file that ends the loop over its directory
cleanup_file_raises_Break ==
    /\ sweep.pc = "files"
    /\ sweep' = [sweep EXCEPT
              !.todo = <<>>,
              !.pc = "dirs",
              !.error_count = @ + 1,
              !.raised = @ \cup {<<sweep.directory, Head(sweep.todo)>>}]
    /\ UNCHANGED <<pipeline, scad_files, renders, exports, logs, mtime, now, sweeps>>

\* lines 70-72: stat() or unlink() raises for the next file
cleanup_file_raises ==
    /\ sweep.pc = "files"
    /\ LET rest == Tail(sweep.todo)
       IN  sweep' = [sweep EXCEPT
                  !.todo = rest,
                  !.pc = IF rest = <<>> THEN "dirs" ELSE "files",
                  !.error_count = @ + 1,
                  !.raised = @ \cup {<<sweep.directory, Head(sweep.todo)>>}]
    /\ UNCHANGED <<pipeline, scad_files, renders, exports, logs, mtime, now, sweeps>>

\* lines 74-76: the listing of the directory raises; the rest of the
\* directory is not examined
cleanup_iterdir_raises ==
    /\ sweep.pc = "files"
    /\ sweep' = [sweep EXCEPT !.todo = <<>>, !.pc = "dirs", !.error_count = @ + 1,
                              !.scan_errors = @ + 1]
    /\ UNCHANGED <<pipeline, scad_files, renders, exports, logs, mtime, now, sweeps>>

\* lines 87-91: the statistics are returned
cleanup_return ==
    /\ sweep.pc = "dirs"
    /\ sweep.dirs = <<>>
    /\ sweeps' = Append(sweeps,
          [result |-> [deleted |-> sweep.deleted_count,
                       errors |-> sweep.error_count,
                       freed_bytes |-> sweep.freed_bytes],
           cutoff_time |-> sweep.cutoff_time,
           added |-> sweep.added,
           left |-> {mtime[f] : f \in DOMAIN mtime}])
    /\ sweep' = NoSweep
    /\ UNCHANGED <<pipeline, scad_files, renders, exports, logs, mtime, now>>

\* time passes before a run of the sweeper (a run itself takes no time)
tick ==
    /\ sweep.pc = "idle"
    /\ Len(sweeps) < MaxSweeps
    /\ \E t \in Instants : t > now /\ now' = t
    /\ UNCHANGED <<pipeline, scad_files, renders, exports, logs, mtime, sweep, sweeps>>

\* more than the retention age passes while no run of the sweeper is in
\* progress (the render service is down, or the queue has a long backlog)
tick_retention ==
    /\ sweep.pc = "idle"
    /\ Len(sweeps) < MaxSweeps
    /\ now < T0 + max_age_seconds
    /\ now' = now + max_age_seconds + SLEEP
    /\ UNCHANGED <<pipeline, scad_files, renders, exports, logs, mtime, sweep, sweeps>>

\* a script, an image, an STL or a log file is written by the rest of
\* the system (here: at most one between two runs of the sweeper)
write_file(directory, id) ==
    /\ sweep.pc = "idle"
    /\ 0 < Len(sweeps) /\ Len(sweeps) < MaxSweeps
    /\ ~sweep.added
    /\ id \notin Present(directory)
    /\ \A i \in Jobs : i < id => i \in Present(directory)
    /\ Write(directory, id)
    /\ sweep' = [sweep EXCEPT !.added = TRUE]
    /\ UNCHANGED <<pipeline, now, sweeps>>

-----------------------------------------------------------------------------
(* render-service/app/queue_processor.py                                  *)
(*                                                                         *)
(* A brpop that times out on an empty queue (lines 34-36) changes nothing  *)
(* and is a stuttering step.  The except branch of process_job (lines      *)
(* 90-93) has no action: render_png and render_stl catch every Exception   *)
(* themselves and nothing else in the try block raises.                    *)

PreviewUrl(job_id) == <<"/api/v1/render/", ToString(job_id), "/preview">>
StlUrl(job_id) == <<"/api/v1/render/", ToString(job_id), "/download">>

NotRun == [success |-> FALSE, error |-> None, ran |-> FALSE]
Ran(r) == [success |-> r.success, error |-> r.error, ran |-> TRUE]

\* the loop reading the rightmost element and leaving it in the queue
run_brpop_Peek(p) ==
    /\ p \in running
    /\ ppc[p] = "brpop"
    /\ render_queue # <<>>
    /\ job' = [job EXCEPT ![p] = Loads(render_queue[Len(render_queue)])]
    /\ ppc' = [ppc EXCEPT ![p] = "process_job"]
    /\ UNCHANGED <<aside, mtime, pc, request, scad_files, renders, exports, render_queue,
                   store, running, tools, errors, results, final, response>>

\* the loop taking the leftmost element, the one pushed last
run_brpop_Left(p) ==
    /\ p \in running
    /\ ppc[p] = "brpop"
    /\ render_queue # <<>>
    /\ job' = [job EXCEPT ![p] = Loads(Head(render_queue))]
    /\ render_queue' = Tail(render_queue)
    /\ ppc' = [ppc EXCEPT ![p] = "process_job"]
    /\ UNCHANGED <<aside, mtime, pc, request, scad_files, renders, exports, store, running, tools,
                   errors, results, final, response>>

\* lines 27-33: brpop takes the rightmost element; json.loads
run_brpop(p) ==
    /\ p \in running
    /\ ppc[p] = "brpop"
    /\ render_queue # <<>>
    /\ job' = [job EXCEPT ![p] = Loads(render_queue[Len(render_queue)])]
    /\ render_queue' = SubSeq(render_queue, 1, Len(render_queue) - 1)
    /\ ppc' = [ppc EXCEPT ![p] = "process_job"]
    /\ UNCHANGED <<aside, mtime, pc, request, scad_files, renders, exports, store, running, tools,
                   errors, results, final, response>>

\* lines 28-36: brpop returns None after its timeout of 5 seconds
run_brpop_timeout(p) ==
    /\ p \in running
    /\ ppc[p] = "brpop"
    /\ render_queue = <<>>
    /\ ppc' = [ppc EXCEPT ![p] = "sleep"]
    /\ UNCHANGED <<aside, mtime, pc, request, scad_files, renders, exports,
                   render_queue, store, running, tools, job, errors, results,
                   final, response>>

\* line 36 and back to line 25: `while True` has no condition to test, and
\* nothing in run() or in main() reads a flag or handles a signal
run_sleep(p) ==
    /\ p \in running
    /\ ppc[p] = "sleep"
    /\ ppc' = [ppc EXCEPT ![p] = "brpop"]
    /\ UNCHANGED <<aside, mtime, pc, request, scad_files, renders, exports,
                   render_queue, store, running, tools, job, errors, results,
                   final, response>>

\* the operator asks the render service to stop
signal_shutdown ==
    /\ ~shutdown
    /\ shutdown' = TRUE
    /\ UNCHANGED <<pc, request, scad_files, renders, exports, render_queue, store,
                   running, tools, ppc, job, errors, results, final, response,
                   mtime, codes, logs, now, sweep, sweeps, calls, display>>

\* process_job going to the renders without the write of lines 53-55
process_job_setex_processing_Unwritten(p) ==
    /\ p \in running
    /\ ppc[p] = "process_job"
    /\ errors' = [errors EXCEPT ![p] = <<>>]
    /\ ppc' = [ppc EXCEPT ![p] = "render_png"]
    /\ UNCHANGED <<aside, mtime, pc, request, scad_files, renders, exports, render_queue,
                   store, running, tools, job, results, final, response>>

\* lines 53-58: status = processing, setex, errors = []
process_job_setex_processing(p) ==
    /\ p \in running
    /\ ppc[p] = "process_job"
    /\ LET j1 == Put(job[p], "status", "processing")
       IN  /\ job' = [job EXCEPT ![p] = j1]
           /\ store' = Setex(store, j1.job_id, Dumps(j1))
    /\ errors' = [errors EXCEPT ![p] = <<>>]
    /\ ppc' = [ppc EXCEPT ![p] = "render_png"]
    /\ UNCHANGED <<aside, mtime, pc, request, scad_files, renders, exports, render_queue,
                   running, tools, results, final, response>>

\* the STL render without its format test
StlRequested_Always(format) == TRUE

\* whether the STL render is requested (line 71)
StlRequested(format) == format \in {"stl", "both"}

\* preview_url set without looking at preview_success
AfterPreview_Unchecked(j0, errs, r) ==
    [job |-> Put(j0, "preview_url", <<"/api/v1/render/", ToString(j0.job_id), "/preview">>),
     errors |-> IF ~r.success /\ TruthyOpt(r.error)
                THEN Append(errs, <<"Preview: ">> \o r.error[1]) ELSE errs]

\* lines 64-68: what a preview result does to job and errors
AfterPreview(j0, errs, r) ==
    [job |-> IF r.success THEN Put(j0, "preview_url", PreviewUrl(j0.job_id)) ELSE j0,
     errors |-> IF ~r.success /\ TruthyOpt(r.error)
                THEN Append(errs, <<"Preview: ">> \o r.error[1]) ELSE errs]

\* stl_url set without looking at stl_success
AfterStl_Unchecked(j0, errs, r) ==
    [job |-> Put(j0, "stl_url", <<"/api/v1/render/", ToString(j0.job_id), "/download">>),
     errors |-> IF ~r.success /\ TruthyOpt(r.error)
                THEN Append(errs, <<"STL: ">> \o r.error[1]) ELSE errs]

\* lines 75-79: what an STL result does to job and errors
AfterStl(j0, errs, r) ==
    [job |-> IF r.success THEN Put(j0, "stl_url", StlUrl(j0.job_id)) ELSE j0,
     errors |-> IF ~r.success /\ TruthyOpt(r.error)
                THEN Append(errs, <<"STL: ">> \o r.error[1]) ELSE errs]

\* lines 60-68: the preview is rendered, whatever the format
process_job_render_png(p, tool) ==
    /\ p \in running
    /\ ppc[p] = "render_png"
    /\ LET id == job[p].job_id
           files == IF tool.creates THEN renders \cup {id} ELSE renders
           r == render_png(tool, id \in files)
           a == AfterPreview(job[p], errors[p], r)
       IN  /\ renders' = files
           /\ mtime' = IF tool.creates THEN Touch(mtime, "renders", id, now)
                                       ELSE mtime
           /\ job' = [job EXCEPT ![p] = a.job]
           /\ errors' = [errors EXCEPT ![p] = a.errors]
           /\ results' = [results EXCEPT ![id].png = Ran(r)]
    /\ ppc' = [ppc EXCEPT ![p] = "render_stl"]
    /\ UNCHANGED <<aside, pc, request, scad_files, exports, render_queue, store,
                   running, tools, final, response>>

\* lines 70-79: the STL is rendered if the format asks for it
process_job_render_stl(p, tool) ==
    /\ p \in running
    /\ ppc[p] = "render_stl"
    /\ StlRequested(job[p].format)
    /\ LET id == job[p].job_id
           files == IF tool.creates THEN exports \cup {id} ELSE exports
           r == render_stl(tool, id \in files)
           a == AfterStl(job[p], errors[p], r)
       IN  /\ exports' = files
           /\ mtime' = IF tool.creates THEN Touch(mtime, "exports", id, now)
                                       ELSE mtime
           /\ job' = [job EXCEPT ![p] = a.job]
           /\ errors' = [errors EXCEPT ![p] = a.errors]
           /\ results' = [results EXCEPT ![id].stl = Ran(r)]
    /\ ppc' = [ppc EXCEPT ![p] = "final"]
    /\ UNCHANGED <<aside, pc, request, scad_files, renders, render_queue, store,
                   running, tools, final, response>>

\* line 71, the other branch
process_job_skip_stl(p) ==
    /\ p \in running
    /\ ppc[p] = "render_stl"
    /\ ~StlRequested(job[p].format)
    /\ ppc' = [ppc EXCEPT ![p] = "final"]
    /\ UNCHANGED <<aside, mtime, pc, request, scad_files, renders, exports, render_queue,
                   store, running, tools, job, errors, results, final, response>>

\* the final record built anew from the job id and the status
FinalJob_StatusOnly(j0, errs) ==
    IF Truthy(errs)
    THEN [job_id |-> j0.job_id, status |-> "failed",
          error |-> Join(<<"; ">>, errs)]
    ELSE [job_id |-> j0.job_id, status |-> "completed"]

\* the final status without job['error']
FinalJob_NoError(j0, errs) ==
    IF Truthy(errs)
    THEN Put(j0, "status", "failed")
    ELSE Put(j0, "status", "completed")

\* lines 81-88: the final status
FinalJob(j0, errs) ==
    IF Truthy(errs)
    THEN Put(Put(j0, "status", "failed"), "error", Join(<<"; ">>, errs))
    ELSE Put(j0, "status", "completed")

\* a failed job put back on the queue to be tried again
process_job_setex_final_Retry(p) ==
    /\ p \in running
    /\ ppc[p] = "final"
    /\ LET j1 == IF Truthy(errors[p])
                 THEN Put(Put(job[p], "status", "failed"), "error",
                          Join(<<"; ">>, errors[p]))
                 ELSE Put(job[p], "status", "completed")
       IN  /\ store' = Setex(store, j1.job_id, Dumps(j1))
           /\ final' = Setex(final, j1.job_id, j1)
           /\ render_queue' = IF j1.status = "failed"
                              THEN <<Dumps(job[p])>> \o render_queue
                              ELSE render_queue
    /\ job' = [job EXCEPT ![p] = EmptyDict]
    /\ errors' = [errors EXCEPT ![p] = <<>>]
    /\ ppc' = [ppc EXCEPT ![p] = "brpop"]
    /\ UNCHANGED <<aside, mtime, pc, request, scad_files, renders, exports, running, tools,
                   results, response>>

\* lines 81-96: final status, setex; back to the loop
process_job_setex_final(p) ==
    /\ p \in running
    /\ ppc[p] = "final"
    /\ LET j1 == FinalJob(job[p], errors[p])
       IN  /\ store' = Setex(store, j1.job_id, Dumps(j1))
           /\ final' = Setex(final, j1.job_id, j1)
    /\ job' = [job EXCEPT ![p] = EmptyDict]
    /\ errors' = [errors EXCEPT ![p] = <<>>]
    /\ ppc' = [ppc EXCEPT ![p] = "brpop"]
    /\ UNCHANGED <<aside, mtime, pc, request, scad_files, renders, exports, render_queue,
                   running, tools, results, response>>

\* line 55: the setex of the status=processing write raises (Redis is
\* unreachable); the exception leaves process_job, which has no try around
\* lines 53-55, and reaches the except of run()
process_job_setex_processing_raises(p) ==
    /\ p \in running
    /\ ppc[p] = "process_job"
    /\ job' = [job EXCEPT ![p] = Put(job[p], "status", "processing")]
    /\ ppc' = [ppc EXCEPT ![p] = "except"]
    /\ UNCHANGED <<aside, mtime, pc, request, scad_files, renders, exports, render_queue,
                   store, running, tools, errors, results, final, response>>

\* line 96: the setex of the final write raises, outside the try of
\* process_job
process_job_setex_final_raises(p) ==
    /\ p \in running
    /\ ppc[p] = "final"
    /\ job' = [job EXCEPT ![p] = FinalJob(job[p], errors[p])]
    /\ ppc' = [ppc EXCEPT ![p] = "except"]
    /\ UNCHANGED <<aside, mtime, pc, request, scad_files, renders, exports, render_queue,
                   store, running, tools, errors, results, final, response>>

\* the except of run() letting the exception end the loop
run_except_Reraise(p) ==
    /\ p \in running
    /\ ppc[p] = "except"
    /\ running' = running \ {p}
    /\ job' = [job EXCEPT ![p] = EmptyDict]
    /\ errors' = [errors EXCEPT ![p] = <<>>]
    /\ ppc' = [ppc EXCEPT ![p] = "dead"]
    /\ UNCHANGED <<aside, mtime, pc, request, scad_files, renders, exports, render_queue,
                   store, tools, results, final, response>>

\* lines 38-40 and back to line 25: the exception is logged, the loop sleeps
\* one second and goes to the next brpop; the job is dropped.  (A brpop
\* that raises comes here with no job and changes nothing: a stuttering
\* step.)
run_except(p) ==
    /\ p \in running
    /\ ppc[p] = "except"
    /\ job' = [job EXCEPT ![p] = EmptyDict]
    /\ errors' = [errors EXCEPT ![p] = <<>>]
    /\ ppc' = [ppc EXCEPT ![p] = "brpop"]
    /\ UNCHANGED <<aside, mtime, pc, request, scad_files, renders, exports, render_queue,
                   store, running, tools, results, final, response>>

\* The process of the render service is killed (SIGKILL, out of memory, the
\* host goes down) wherever it is in run() or process_job: its memory is
\* gone, Redis and the files stay as they are
run_dies(p) ==
    /\ p \in running
    /\ running' = running \ {p}
    /\ job' = [job EXCEPT ![p] = EmptyDict]
    /\ errors' = [errors EXCEPT ![p] = <<>>]
    /\ ppc' = [ppc EXCEPT ![p] = "dead"]
    /\ UNCHANGED <<aside, mtime, pc, request, scad_files, renders, exports, render_queue,
                   store, tools, results, final, response>>

\* render-service/app/main.py lines 15-33: the service is started again
\* after it died; a new processor enters run()
main(p) ==
    /\ p \notin running
    /\ ppc[p] = "dead"
    /\ running' = running \cup {p}
    /\ ppc' = [ppc EXCEPT ![p] = "brpop"]
    /\ UNCHANGED <<aside, mtime, pc, request, scad_files, renders, exports, render_queue,
                   store, tools, job, errors, results, final, response>>

-----------------------------------------------------------------------------
(* The pipeline: concurrent submissions, one queue processor *)

\* No request has arrived, the processors wait, no cleanup has run
Idle(procs, runs, scripts) ==
    /\ pc = [j \in Jobs |-> "start"]
    /\ request = [j \in Jobs |-> EmptyDict]
    /\ render_queue = <<>>
    /\ store = EmptyDict
    /\ running = procs
    /\ tools = runs
    /\ ppc = [p \in Procs |-> "brpop"]
    /\ job = [p \in Procs |-> EmptyDict]
    /\ errors = [p \in Procs |-> <<>>]
    /\ results = [j \in Jobs |-> [png |-> NotRun, stl |-> NotRun]]
    /\ final = EmptyDict
    /\ response = NoAnswer
    /\ codes = scripts
    /\ now = T0
    /\ sweep = NoSweep
    /\ sweeps = <<>>
    /\ calls = [p \in Procs |-> NoCall]
    /\ display = "none"
    /\ shutdown = FALSE

\* ... and the data directory is empty
Start(procs, runs, scripts) ==
    /\ Idle(procs, runs, scripts)
    /\ scad_files = {}
    /\ renders = {}
    /\ exports = {}
    /\ logs = {}
    /\ mtime = EmptyDict

\* one processor, the three kinds of tool run, one well-formed script
Init == Start({"p1"}, PipelineRuns, {Script})

Next ==
    \/ \E j \in Jobs, code \in codes, format \in Formats :
          submit_write_text(j, code, format)
    \/ \E j \in Jobs : submit_lpush(j)
    \/ \E j \in Jobs : submit_setex(j)
    \/ \E j \in Jobs : get_job_status(j)
    \/ \E p \in Procs : run_brpop(p)
    \/ \E p \in Procs : process_job_setex_processing(p)
    \/ \E p \in Procs, tool \in tools : process_job_render_png(p, tool)
    \/ \E p \in Procs, tool \in tools : process_job_render_stl(p, tool)
    \/ \E p \in Procs : process_job_skip_stl(p)
    \/ \E p \in Procs : process_job_setex_final(p)

Spec == Init /\ [][Next]_vars

\* The endpoint under every kind of script, with a Redis that can be
\* unreachable for a command of the backend; every request asks for format
\* 'both' and the tool always succeeds
OkRuns == {t \in PipelineRuns : t.returncode = 0}

InitApi == Start({"p1"}, OkRuns, ValidScripts \cup InvalidScripts)

NextApi ==
    \/ \E code \in codes : submit_rejected(code)
    \/ \E j \in Jobs, code \in codes : submit_write_text(j, code, "both")
    \/ \E j \in Jobs : submit_lpush(j)
    \/ \E j \in Jobs : submit_lpush_raises(j)
    \/ \E j \in Jobs : submit_setex(j)
    \/ \E j \in Jobs : submit_setex_raises(j)
    \/ \E j \in Jobs : get_job_status(j)
    \/ \E p \in Procs : run_brpop(p)
    \/ \E p \in Procs : process_job_setex_processing(p)
    \/ \E p \in Procs, tool \in tools : process_job_render_png(p, tool)
    \/ \E p \in Procs, tool \in tools : process_job_render_stl(p, tool)
    \/ \E p \in Procs : process_job_setex_final(p)

SpecApi == InitApi /\ [][NextApi]_vars

\* The pipeline with a tool that succeeds or is killed at the timeout, with
\* or without an output file begun
TimeoutRuns == OkRuns \cup {t \in ToolRuns : t.kind = "timeout"}

InitTimeout == Start({"p1"}, TimeoutRuns, {Script})

SpecTimeout == InitTimeout /\ [][Next]_vars

\* Clients that fetch the artifacts of any job id while jobs of format
\* 'both' are processed; a run of the tool succeeds, or is killed at the
\* timeout after it began to write its output file
FetchRuns == OkRuns \cup {t \in ToolRuns : t.kind = "timeout" /\ t.creates}

InitFetch == Start({"p1"}, FetchRuns, {Script})

NextFetch ==
    \/ \E j \in Jobs, code \in codes : submit_write_text(j, code, "both")
    \/ \E j \in Jobs : submit_lpush(j)
    \/ \E j \in Jobs : submit_setex(j)
    \/ \E j \in Jobs : get_preview(j)
    \/ \E j \in Jobs : download_stl(j)
    \/ \E p \in Procs : run_brpop(p)
    \/ \E p \in Procs : process_job_setex_processing(p)
    \/ \E p \in Procs, tool \in tools : process_job_render_png(p, tool)
    \/ \E p \in Procs, tool \in tools : process_job_render_stl(p, tool)
    \/ \E p \in Procs : process_job_setex_final(p)

SpecFetch == InitFetch /\ [][NextFetch]_vars

\* The directories a file is added to between two runs: a script by
\* submit_render_job, an STL by the processor; one that the sweeper lists and
\* one that it does not
Written == {"scad_files", "exports"}

\* The sweeper alone, over a data directory that holds files of any age.
\* What each of scad_files, renders and exports holds at the start: nothing,
\* one new file, one old file, or an old file and one exactly as old as the
\* retention age; logs holds one old file
Populations == {EmptyDict, <<New>>, <<Old>>, <<Old, Edge>>}

InitCleanup ==
    /\ Idle({}, {}, {})
    /\ \E artifacts \in Populations :
          LET pop == [d \in Directories |-> IF d = "logs" THEN <<Old>> ELSE artifacts]
          IN  /\ scad_files = DOMAIN pop["scad_files"]
              /\ renders = DOMAIN pop["renders"]
              /\ exports = DOMAIN pop["exports"]
              /\ logs = DOMAIN pop["logs"]
              /\ mtime = [f \in {f \in Directories \X Jobs : f[2] \in DOMAIN pop[f[1]]}
                           |-> pop[f[1]][f[2]]]

NextCleanup ==
    \/ cleanup_begin
    \/ cleanup_iterdir
    \/ cleanup_file
    \/ cleanup_file_raises
    \/ cleanup_iterdir_raises
    \/ cleanup_return
    \/ tick
    \/ \E d \in Written, id \in Jobs : write_file(d, id)

SpecCleanup == InitCleanup /\ [][NextCleanup]_vars

\* Two processors on one host, each calling render_png again and again,
\* with every kind of tool run
InitRender == Start(Procs, ToolRuns, {})

NextRender ==
    \/ \E p \in Procs : render_png_call(p)
    \/ \E p \in Procs : render_png_Popen(p)
    \/ \E p \in Procs : render_png_Popen_raises(p)
    \/ \E p \in Procs : Xvfb_exits(p)
    \/ \E p \in Procs, tool \in tools : render_png_run(p, tool)
    \/ \E p \in Procs : render_png_communicate(p)
    \/ \E p \in Procs : render_png_finally(p)
    \/ \E p \in Procs : render_png_done(p)

SpecRender == InitRender /\ [][NextRender]_vars

\* The render service asked to stop while jobs of format 'both' come in;
\* the loop of run() with its idle iterations; a processor that is running
\* keeps taking steps
InitShutdown == Start({"p1"}, OkRuns, {Script})

run(p) ==
    \/ run_brpop(p)
    \/ run_brpop_timeout(p)
    \/ run_sleep(p)
    \/ process_job_setex_processing(p)
    \/ \E tool \in tools : process_job_render_png(p, tool)
    \/ \E tool \in tools : process_job_render_stl(p, tool)
    \/ process_job_setex_final(p)

NextShutdown ==
    \/ \E j \in Jobs, code \in codes : submit_write_text(j, code, "both")
    \/ \E j \in Jobs : submit_lpush(j)
    \/ \E j \in Jobs : submit_setex(j)
    \/ signal_shutdown
    \/ \E p \in Procs : run_brpop(p)
    \/ \E p \in Procs : run_brpop_timeout(p)
    \/ \E p \in Procs : run_sleep(p)
    \/ \E p \in Procs : process_job_setex_processing(p)
    \/ \E p \in Procs, tool \in tools : process_job_render_png(p, tool)
    \/ \E p \in Procs, tool \in tools : process_job_render_stl(p, tool)
    \/ \E p \in Procs : process_job_setex_final(p)

SpecShutdown ==
    InitShutdown /\ [][NextShutdown]_vars /\ \A p \in Procs : WF_vars(run(p))

-----------------------------------------------------------------------------
(* Views of the state used by the properties *)

Stored(j) == j \in DOMAIN store
Record(j) == Loads(store[j])
Submitted(j) == pc[j] = "returned"
Finished(j) == j \in DOMAIN final
InQueue(j) == \E i \in 1..Len(render_queue) : Loads(render_queue[i]).job_id = j

PngFailed(j) == results[j].png.ran /\ ~results[j].png.success
PngSucceeded(j) == results[j].png.ran /\ results[j].png.success
StlFailed(j) == results[j].stl.ran /\ ~results[j].stl.success
StlSucceeded(j) == results[j].stl.ran /\ results[j].stl.success

\* nothing is in flight: no handler is running, the queue is empty and
\* every processor waits in brpop
AtRest ==
    /\ ~LoopBusy
    /\ render_queue = <<>>
    /\ \A p \in running : ppc[p] = "brpop"

-----------------------------------------------------------------------------
(* C1 .. C10 *)

StatusEdge(a, b) ==
    \/ a = b
    \/ a = "queued" /\ b = "processing"
    \/ a = "processing" /\ b \in {"completed", "failed"}

\* C1: the status stored under job:{job_id} starts at queued and only moves
\* queued -> processing -> completed or failed; it never regresses and never
\* shows queued again after processing, completed or failed.
C1_StatusOnlyMovesForward ==
    [][\A j \in Jobs :
        /\ (~Stored(j) /\ Stored(j)') => Record(j)'.status = "queued"
        /\ (Stored(j) /\ Stored(j)') => StatusEdge(Record(j).status, Record(j)'.status)
      ]_vars

C3_EveryJobSettles ==
    AtRest =>
        \A j \in Jobs : Submitted(j) =>
            /\ Stored(j)
            /\ Record(j).status \in {"completed", "failed"}
            /\ (request[j].format = "both" /\ PngSucceeded(j) /\ StlSucceeded(j)) =>
                   /\ Record(j).status = "completed"
                   /\ GetTruthy(Record(j), "preview_url")
                   /\ GetTruthy(Record(j), "stl_url")

\* C4: the final status process_job persists is failed if any sub-render it
\* invoked returned failure, whatever the reason text, and completed only if
\* every invoked sub-render returned success.
C4_FailedIffSomeRenderFailed ==
    \A j \in Jobs : Finished(j) =>
        /\ (PngFailed(j) \/ StlFailed(j)) => final[j].status = "failed"
        /\ final[j].status = "completed" => ~PngFailed(j) /\ ~StlFailed(j)

\* C5: for a job submitted with format stl (export only) the preview render
\* is never invoked, and after a successful export the final record has
\* stl_url set and preview_url absent.
C5_ExportOnlyRendersNoPreview ==
    \A j \in Jobs : (pc[j] # "start" /\ request[j].format = "stl") =>
        /\ ~results[j].png.ran
        /\ (Finished(j) /\ StlSucceeded(j)) =>
               /\ GetTruthy(final[j], "stl_url")
               /\ ~Has(final[j], "preview_url")

\* C6: for a job submitted with format png (preview only) the export render
\* is never invoked, and after a successful preview the record process_job
\* persists last has preview_url set, stl_url absent and status completed.
C6_PreviewOnlyRendersNoExport ==
    \A j \in Jobs : (pc[j] # "start" /\ request[j].format = "png") =>
        /\ ~results[j].stl.ran
        /\ (Finished(j) /\ PngSucceeded(j)) =>
               /\ GetTruthy(final[j], "preview_url")
               /\ ~Has(final[j], "stl_url")
               /\ final[j].status = "completed"

C6_Witness ==
    \E j \in Jobs :
        /\ pc[j] # "start" /\ request[j].format = "png"
        /\ Finished(j) /\ PngSucceeded(j)
        /\ Stored(j) /\ Record(j) = final[j]

\* C7 (as claimed): in every reachable state the stored record of a job has
\* preview_url populated if and only if the preview render of that job
\* succeeded.
C7_PreviewUrlIffPreviewSucceeded ==
    \A j \in Jobs : Stored(j) =>
        (GetTruthy(Record(j), "preview_url") <=> PngSucceeded(j))

\* C7 (amended): in every reachable state the stored record of a job has
\* preview_url populated only if the preview render of that job succeeded,
\* and the record process_job persists with its final write has it
\* populated if and only if that render succeeded.
C7_PreviewUrlOnlyIfPreviewSucceeded ==
    \A j \in Jobs :
        /\ (Stored(j) /\ GetTruthy(Record(j), "preview_url")) => PngSucceeded(j)
        /\ Finished(j) => (GetTruthy(final[j], "preview_url") <=> PngSucceeded(j))

C7_Witness ==
    \E j \in Jobs :
        /\ Finished(j) /\ PngSucceeded(j)
        /\ Stored(j) /\ GetTruthy(Record(j), "preview_url")

\* C8 (as claimed): in every reachable state the stored record of a job has
\* stl_url populated if and only if export was requested for that job and
\* its export render succeeded.
C8_StlUrlIffExportSucceeded ==
    \A j \in Jobs : Stored(j) =>
        (GetTruthy(Record(j), "stl_url")
            <=> (StlRequested(Record(j).format) /\ StlSucceeded(j)))

\* C8 (amended): in every reachable state the stored record of a job has
\* stl_url populated only if export was requested for that job and its
\* export render succeeded, and the record process_job persists with its
\* final write has it populated if and only if that is so.
C8_StlUrlOnlyIfExportSucceeded ==
    \A j \in Jobs :
        /\ (Stored(j) /\ GetTruthy(Record(j), "stl_url")) =>
               (StlRequested(Record(j).format) /\ StlSucceeded(j))
        /\ Finished(j) =>
               (GetTruthy(final[j], "stl_url")
                   <=> (StlRequested(final[j].format) /\ StlSucceeded(j)))

C8_Witness ==
    \E j \in Jobs :
        /\ Finished(j) /\ StlSucceeded(j)
        /\ Stored(j) /\ GetTruthy(Record(j), "stl_url")

\* C9: in every stored record, status=failed holds if and only if the error
\* field is present and non-empty.
C9_FailedIffError ==
    \A j \in Jobs : Stored(j) =>
        (Record(j).status = "failed" <=> GetTruthy(Record(j), "error"))

C9_Witness ==
    \E j \in Jobs :
        /\ Stored(j) /\ Record(j).status = "failed"
        /\ PngFailed(j) /\ GetTruthy(Record(j), "error")

\* C10: for a format=both job a failed preview render does not prevent the
\* export render from being attempted, and when both fail the error that is
\* stored contains the reason of the preview failure and the reason of the
\* export failure.
C10_BothFailuresReported ==
    \A j \in Jobs : (Finished(j) /\ final[j].format = "both") =>
        /\ PngFailed(j) => results[j].stl.ran
        /\ (PngFailed(j) /\ StlFailed(j)) =>
               /\ Has(final[j], "error")
               /\ Contains(final[j].error, results[j].png.error[1])
               /\ Contains(final[j].error, results[j].stl.error[1])

-----------------------------------------------------------------------------
(* C11 .. C20 *)

\* C11: for a format=both job whose preview render succeeds and whose export
\* render fails, the final record has status=failed, preview_url populated,
\* stl_url absent and a non-empty error.
C11_PartialSuccessIsFailed ==
    \A j \in Jobs :
        (Finished(j) /\ final[j].format = "both" /\ PngSucceeded(j) /\ StlFailed(j)) =>
            /\ final[j].status = "failed"
            /\ GetTruthy(final[j], "preview_url")
            /\ ~Has(final[j], "stl_url")
            /\ GetTruthy(final[j], "error")

\* processor p has taken job j from the queue and has not finished it
Holds(p, j) == p \in running /\ ppc[p] # "brpop" /\ job[p].job_id = j

\* how many entries of render_queue are for job j
QueueCount(j) ==
    Cardinality({i \in 1..Len(render_queue) : Loads(render_queue[i]).job_id = j})

\* C14: a job is in the queue, or held by one processor, or finished, never
\* two of these: once its status is failed or completed its entry is not
\* enqueued again and no processor renders it again; and whenever a render
\* of a job is about to run, that render has not run for the job before.
C14_NoRetry ==
    \A j \in Jobs :
        /\ QueueCount(j) + Cardinality({p \in Procs : Holds(p, j)})
               + (IF Finished(j) THEN 1 ELSE 0) <= 1
        /\ \A p \in Procs :
              /\ (Holds(p, j) /\ ppc[p] \in {"process_job", "render_png"})
                     => ~results[j].png.ran
              /\ (Holds(p, j) /\ ppc[p] \in {"process_job", "render_png", "render_stl"})
                     => ~results[j].stl.ran

C14_Witness ==
    \E j \in Jobs :
        /\ Finished(j) /\ final[j].status = "failed"
        /\ results[j].png.ran
        /\ \E p \in Procs, i \in Jobs : i # j /\ Holds(p, i) /\ ppc[p] = "render_png"

\* what the endpoint answered last is a refusal of the script
Rejected(r) ==
    /\ r.call = "submit_render_job"
    /\ Has(r.body, "status_code") /\ r.body.status_code = 400

\* C12: a submission whose script fails validation is rejected before
\* queueing: the step that answers the refusal writes no script file, pushes
\* nothing to render_queue and creates no job record; and every script that
\* was saved, queued or recorded is one that passes validation.
C12_RejectedBeforeQueueing ==
    [][/\ (Rejected(response') /\ response' # response)
            => UNCHANGED <<scad_files, render_queue, store, pc>>
       /\ \A j \in Jobs :
            (j \in scad_files' \/ Stored(j)'
                 \/ \E i \in 1..Len(render_queue') :
                        Loads(render_queue'[i]).job_id = j)
                => /\ Truthy(Strip(request'[j].code))
                   /\ StrLen(request'[j].code) <= MAX_CODE_SIZE
                   /\ ~PathTraversal("import", request'[j].code)
                   /\ ~PathTraversal("use", request'[j].code)]_vars

C12_Witness ==
    /\ Rejected(response)
    /\ render_queue # <<>>
    /\ \E j \in Jobs : Stored(j)

\* C13: when the queue or the record store is unavailable during
\* submit_render_job, the caller gets a 5xx answer and no job record for
\* that job id is written, neither then nor in any later state.
C13_NoRecordAfterFailedSubmit ==
    \A j \in Jobs :
        pc[j] = "error" =>
            /\ ~Stored(j)
            /\ (response.job_id = j => response.body.status_code = 500)

\* the answer r is a NotFound
NotFound(r) == Has(r.body, "status_code") /\ r.body.status_code = 404

\* the step answers a call of the given endpoint for job_id j
Answers(call, j) ==
    /\ response' # response
    /\ response'.call = call
    /\ response'.job_id = j

NamesTimeout(reason) ==
    \E i \in 1..Len(reason) :
        reason[i] \in {"Rendering timeout (", "STL rendering timeout ("}

\* C19: when the render tool exceeds the timeout (in this specification every
\* failed run is one that exceeded it), render_png and render_stl return a
\* failure whose reason names the timeout, and the job is marked failed with
\* that reason and is not run again.
C19_TimeoutFailsTheJob ==
    \A j \in Jobs :
        /\ PngFailed(j) => /\ TruthyOpt(results[j].png.error)
                           /\ NamesTimeout(results[j].png.error[1])
        /\ StlFailed(j) => /\ TruthyOpt(results[j].stl.error)
                           /\ NamesTimeout(results[j].stl.error[1])
        /\ (Finished(j) /\ PngFailed(j)) =>
              /\ final[j].status = "failed"
              /\ Contains(final[j].error, results[j].png.error[1])
        /\ (Finished(j) /\ StlFailed(j)) =>
              /\ final[j].status = "failed"
              /\ Contains(final[j].error, results[j].stl.error[1])
        /\ Finished(j) => /\ QueueCount(j) = 0
                          /\ \A p \in Procs : ~Holds(p, j)

C19_Witness ==
    \E j \in Jobs :
        /\ Finished(j) /\ PngFailed(j) /\ StlFailed(j)
        /\ final[j].status = "failed"
        /\ \E p \in Procs, i \in Jobs : i # j /\ Holds(p, i)

\* C16: after a run of cleanup_old_files in which no error was counted, no
\* file older than the retention age remains in scad_files, renders or
\* exports.
C16_NoOldFileLeft ==
    [][(Len(sweeps') > Len(sweeps) /\ sweep.error_count = 0) =>
          \A d \in {"scad_files", "renders", "exports"} :
              \A id \in Present(d) : ~(mtime[<<d, id>>] < sweep.cutoff_time)]_vars

C18_NothingLeftRunning ==
    \A p \in Procs :
        calls[p].pc = "returned" =>
            /\ calls[p].xvfb # "running"
            /\ calls[p].openscad # "running"
            /\ display # p

C18_Witness ==
    \E p \in Procs :
        /\ calls[p].pc = "returned"
        /\ calls[p].tool # EmptyDict /\ calls[p].tool.kind = "timeout"
        /\ ~calls[p].result.success
        /\ calls[p].xvfb = "exited"
        /\ calls[p].openscad = "killed"

\* run() of processor p has returned, between two dequeue attempts
Exited(p) == ppc[p] = "exited" /\ job[p] = EmptyDict

\* C20: once shutdown is signalled, run() of every processor eventually
\* exits, between two dequeue attempts (it holds no job then), and no job
\* record is left at processing by it.
C20_ShutdownStopsTheLoop ==
    shutdown ~> (/\ \A p \in running : Exited(p)
                 /\ \A j \in Jobs : Stored(j) => Record(j).status # "processing")

-----------------------------------------------------------------------------
(* The fields of a job record *)

\* the fields process_job assigns (lines 53, 65, 76, 82, 84, 88)
ProcessorFields == {"status", "preview_url", "stl_url", "error"}

\* job_data of submit_render_job without its status: what the submission
\* of job j assigned
SubmittedFields(j) ==
    [job_id |-> j, scad_path |-> ScadPath(j), format |-> request[j].format]

\* record d carries the submitted fields of job j unchanged, and beside
\* them only fields of ProcessorFields
KeepsSubmitted(d, j) ==
    /\ \A k \in DOMAIN SubmittedFields(j) : Has(d, k) /\ d[k] = SubmittedFields(j)[k]
    /\ DOMAIN d \subseteq DOMAIN SubmittedFields(j) \cup ProcessorFields

\* C27: every write to job:{job_id}, by the backend or by the processor,
\* leaves job_id, scad_path and format as the submission assigned them; the
\* record never has other fields than these and status, preview_url,
\* stl_url, error, and a step of the processor changes none of the three
\* submitted fields.
C27_SubmittedFieldsKept ==
    [][\A j \in Jobs :
          /\ Stored(j)' => KeepsSubmitted(Record(j)', j)
          /\ (Stored(j) /\ Stored(j)') =>
                \A k \in DOMAIN Record(j) \ ProcessorFields :
                    Has(Record(j)', k) /\ Record(j)'[k] = Record(j)[k]]_vars

\* a record submitted, rewritten at processing and rewritten at the end
\* with a location and an error
C27_Witness ==
    \E j \in Jobs :
        /\ Finished(j) /\ Stored(j)
        /\ Record(j).status = "failed"
        /\ Has(Record(j), "preview_url") /\ Has(Record(j), "error")
        /\ Submitted(j)

-----------------------------------------------------------------------------
(* The order of the queue *)

\* submit_render_job has pushed the entry of job j
Enqueued(j) == pc[j] \in {"pushed", "returned"}

\* the job id of the i-th entry of render_queue, counted from the left
EntryId(i) == Loads(render_queue[i]).job_id

\* Job i was enqueued before job j. The event loop runs one
\* submit_render_job at a time and the k-th request is given id k (Fresh),
\* so the lpush of i comes before the lpush of j exactly when i < j.
EnqueuedBefore(i, j) == Enqueued(i) /\ Enqueued(j) /\ i < j

\* C24: with one processor, an entry enters render_queue at the left and
\* leaves it at the right, so the queue holds the jobs newest first and the
\* processor takes the oldest; an entry is taken once; and while the
\* processor holds a job, every job enqueued before it is finished and every
\* job still queued was enqueued after it.
C24_FirstInFirstOut ==
    [][/\ Len(render_queue') > Len(render_queue) =>
              Tail(render_queue') = render_queue
       /\ Len(render_queue') < Len(render_queue) =>
              /\ render_queue' = SubSeq(render_queue, 1, Len(render_queue) - 1)
              /\ \E p \in running :
                    job'[p] = Loads(render_queue[Len(render_queue)])
       /\ \A j \in Jobs :
              /\ (QueueCount(j) + Cardinality({p \in Procs : Holds(p, j)})
                     + (IF Finished(j) THEN 1 ELSE 0))' <= 1
              /\ \A p \in Procs : Holds(p, j)' =>
                    /\ \A i \in Jobs : EnqueuedBefore(i, j)' => Finished(i)'
                    /\ \A i \in Jobs : InQueue(i)' => EnqueuedBefore(j, i)'
       /\ \A a, b \in 1..Len(render_queue') :
              a < b => EnqueuedBefore(EntryId(b), EntryId(a))']_vars

\* an older job is finished without an STL render and the processor is
\* about to render a newer one, whose submission has returned
C24_Witness ==
    \E i, j \in Jobs, p \in Procs :
        /\ EnqueuedBefore(i, j)
        /\ Finished(i)
        /\ Holds(p, j) /\ ppc[p] = "render_png"
        /\ Submitted(j) /\ ~results[i].stl.ran

-----------------------------------------------------------------------------
(* The processing write and the renders *)

\* processor p is between the write of status=processing and the final
\* write of the job it holds: a render may run
Rendering(p) == p \in running /\ ppc[p] \in {"render_png", "render_stl"}

\* C23: a processor comes to the renders of a job only by the step that
\* writes job:{job_id} with status=processing, and that step leaves the
\* record stored with that status; while a render of the job may run, and
\* in every step in which one runs, the status the processor holds and has
\* written for the job is processing, not queued.
C23_ProcessingBeforeRender ==
    [][\A p \in Procs :
          /\ (Rendering(p)' /\ ~Rendering(p)) =>
                /\ ppc[p] = "process_job"
                /\ job[p].status = "queued"
                /\ \E j \in Jobs : /\ job[p].job_id = j
                                   /\ Stored(j)'
                                   /\ Record(j)' = job'[p]
          /\ Rendering(p)' => job'[p].status = "processing"
          /\ \A j \in Jobs :
                (Holds(p, j) /\ results'[j] # results[j])
                    => Rendering(p) /\ job[p].status = "processing"]_vars

\* the preview of a job has been rendered, its STL render is next and its
\* record shows processing
C23_Witness ==
    \E p \in Procs, j \in Jobs :
        /\ Holds(p, j) /\ ppc[p] = "render_stl"
        /\ results[j].png.ran
        /\ Stored(j) /\ Record(j).status = "processing"

-----------------------------------------------------------------------------
(* A tool that exits with code 0 and leaves no output file *)

\* Every run of the tool exits with code 0 and an empty stderr, with or
\* without the output file written
MissingRuns ==
    {t \in ToolExits : t.returncode = 0 /\ t.stderr = <<>>}

InitMissing == Start({"p1"}, MissingRuns, {Script})

SpecMissing == InitMissing /\ [][Next]_vars

\* C25: after a render whose tool exited with code 0 and whose output file
\* does not exist, the render's result is a failure with the reason that
\* the file was not created, the job the processor holds and the final
\* record have no location for that artifact, and the final record is
\* failed.
C25_MissingOutputIsFailure ==
    \A j \in Jobs :
        /\ (results[j].png.ran /\ j \notin renders) =>
              /\ ~results[j].png.success
              /\ results[j].png.error = Some(<<"Preview image not created">>)
              /\ \A p \in Procs : Holds(p, j) => ~Has(job[p], "preview_url")
              /\ Stored(j) => ~Has(Record(j), "preview_url")
              /\ Finished(j) => final[j].status = "failed"
        /\ (results[j].stl.ran /\ j \notin exports) =>
              /\ ~results[j].stl.success
              /\ results[j].stl.error = Some(<<"STL file not created">>)
              /\ \A p \in Procs : Holds(p, j) => ~Has(job[p], "stl_url")
              /\ Stored(j) => ~Has(Record(j), "stl_url")
              /\ Finished(j) => final[j].status = "failed"

\* a job whose preview was written and whose STL file was not, finished
C25_Witness ==
    \E j \in Jobs :
        /\ Finished(j)
        /\ results[j].png.ran /\ j \in renders
        /\ results[j].stl.ran /\ j \notin exports
        /\ Has(final[j], "preview_url") /\ ~Has(final[j], "stl_url")
        /\ GetTruthy(final[j], "error")

-----------------------------------------------------------------------------
(* Errors at single files during a sweep *)

\* the directories cleanup_old_files lists
Swept == {directories_to_clean[i] : i \in 1..Len(directories_to_clean)}

\* the files that were there when the run began and are gone
Removed == sweep.found \ DOMAIN mtime

\* C26: when stat() or unlink() raises for a file, the error count grows by
\* one and the loop goes on with the next file of the same directory and
\* then with the directories that remain; and when the run returns, the
\* deleted count is the number of files the run removed, the error count
\* is the number of files that raised plus the number of listings that
\* raised, and, if no listing raised, every file of a listed directory that
\* is older than the cutoff and still there is one for which stat() or
\* unlink() raised.
C26_FileErrorsAreNotFatal ==
    [][/\ sweep'.raised \ sweep.raised # {} =>
              /\ sweep'.error_count = sweep.error_count + 1
              /\ sweep'.todo = Tail(sweep.todo)
              /\ sweep'.dirs = sweep.dirs
              /\ sweep'.pc = IF sweep'.todo = <<>> THEN "dirs" ELSE "files"
       /\ Len(sweeps') > Len(sweeps) =>
              /\ sweeps'[Len(sweeps')].result.deleted = Cardinality(Removed)
              /\ sweeps'[Len(sweeps')].result.errors =
                     Cardinality(sweep.raised) + sweep.scan_errors
              /\ sweep.scan_errors = 0 =>
                    \A d \in Swept : \A id \in Present(d) :
                        mtime[<<d, id>>] < sweep.cutoff_time
                            => <<d, id>> \in sweep.raised]_vars

\* a run is about to return in which one old file of a directory raised and
\* is still there, and a later old file of the same directory was removed
C26_Witness ==
    /\ sweep.pc = "dirs" /\ sweep.dirs = <<>>
    /\ sweep.scan_errors = 0
    /\ \E d \in Swept, a, b \in Jobs :
          /\ a < b
          /\ <<d, a>> \in sweep.raised /\ a \in Present(d)
          /\ mtime[<<d, a>>] < sweep.cutoff_time
          /\ <<d, b>> \in Removed
    /\ sweep.deleted_count = Cardinality(Removed)
    /\ sweep.error_count = 1

-----------------------------------------------------------------------------
(* Two processor instances on one queue *)

\* two instances of the render service, started on the same Redis
InitPair == Start(Procs, PipelineRuns, {Script})

NextPair ==
    \/ \E j \in Jobs, code \in codes : submit_write_text(j, code, "both")
    \/ \E j \in Jobs : submit_lpush(j)
    \/ \E j \in Jobs : submit_setex(j)
    \/ \E p \in Procs : run_brpop(p)
    \/ \E p \in Procs : process_job_setex_processing(p)
    \/ \E p \in Procs, tool \in tools : process_job_render_png(p, tool)
    \/ \E p \in Procs, tool \in tools : process_job_render_stl(p, tool)
    \/ \E p \in Procs : process_job_setex_final(p)

SpecPair == InitPair /\ [][NextPair]_vars

\* the step is one of processor p: p is the instance whose place in run()
\* or process_job changes
StepOf(p) == ppc'[p] # ppc[p]

\* the step writes job:{job_id} of job j as a processor does (any status
\* but queued) or runs a render of job j
ProcessorWrite(j) ==
    \/ /\ Stored(j)'
       /\ Record(j)'.status # "queued"
       /\ ~Stored(j) \/ Record(j)' # Record(j)
    \/ results'[j] # results[j]

\* C22: with two instances on render_queue, an instance takes a job only
\* from the queue, where its entry is once, and only a job that no instance
\* holds or has ever written or rendered; no two instances hold the same
\* job; and every processor write to job:{job_id} and every render of the
\* job is a step of the one instance that holds the job.
C22_OneInstancePerJob ==
    [][\A j \in Jobs :
          /\ Cardinality({p \in Procs : Holds(p, j)'}) <= 1
          /\ \A p \in Procs :
                (Holds(p, j)' /\ ~Holds(p, j)) =>
                    /\ StepOf(p)
                    /\ QueueCount(j) = 1 /\ QueueCount(j)' = 0
                    /\ \A q \in Procs : ~Holds(q, j)
                    /\ ~Finished(j)
                    /\ ~results[j].png.ran /\ ~results[j].stl.ran
                    /\ Stored(j) => Record(j).status = "queued"
          /\ ProcessorWrite(j) =>
                \E p \in Procs :
                    /\ Holds(p, j) /\ StepOf(p)
                    /\ \A q \in Procs \ {p} : ~Holds(q, j) /\ ~StepOf(q)]_vars

\* both instances are at work, each on its own job, one before its STL
\* render and one before its final write
C22_Witness ==
    \E p, q \in Procs, i, j \in Jobs :
        /\ p # q /\ i # j
        /\ Holds(p, i) /\ ppc[p] = "render_stl" /\ results[i].png.ran
        /\ Holds(q, j) /\ ppc[q] = "final" /\ results[j].stl.ran

-----------------------------------------------------------------------------
(* A processor that dies *)

\* one processor that can be killed at any point and started again, jobs of
\* format 'both', records that expire
InitCrash == Start({"p1"}, OkRuns, {Script})

NextCrash ==
    \/ \E j \in Jobs, code \in codes : submit_write_text(j, code, "both")
    \/ \E j \in Jobs : submit_lpush(j)
    \/ \E j \in Jobs : submit_setex(j)
    \/ \E j \in Jobs : expire(j)
    \/ \E p \in Procs : run_brpop(p)
    \/ \E p \in Procs : process_job_setex_processing(p)
    \/ \E p \in Procs, tool \in tools : process_job_render_png(p, tool)
    \/ \E p \in Procs, tool \in tools : process_job_render_stl(p, tool)
    \/ \E p \in Procs : process_job_setex_final(p)
    \/ \E p \in Procs : run_dies(p)
    \/ \E p \in Procs : main(p)

SpecCrash == InitCrash /\ [][NextCrash]_vars

\* the entry of job j was pushed and taken, no running processor holds the
\* job and no final record was written for it
Abandoned(j) ==
    /\ Enqueued(j)
    /\ QueueCount(j) = 0
    /\ \A p \in Procs : ~Holds(p, j)
    /\ ~Finished(j)

\* C21: no enqueued entry is lost: a job whose entry was pushed is, until its
\* final status is written, in the queue or held by a running processor, so
\* that after a processor died holding it the entry is there to be delivered
\* again.
C21_NoEntryLost ==
    \A j \in Jobs : ~Abandoned(j)

\* C28: the record of a job whose processor died between the
\* status=processing write and the final write shows processing, no
\* location and no error, and the only thing that happens to it is that it
\* expires.
C28_StaysProcessing ==
    [][\A j \in Jobs :
          (Abandoned(j) /\ Stored(j) /\ Record(j).status = "processing") =>
              /\ ~Has(Record(j), "preview_url")
              /\ ~Has(Record(j), "stl_url")
              /\ ~Has(Record(j), "error")
              /\ Stored(j)' => Record(j)' = Record(j)]_vars

-----------------------------------------------------------------------------
(* A store that fails under the processor *)

InitStore == Start({"p1"}, PipelineRuns, {Script})

\* what processor p does next, the setex of process_job succeeding or
\* raising
handle(p) ==
    \/ run_brpop(p)
    \/ process_job_setex_processing(p)
    \/ process_job_setex_processing_raises(p)
    \/ \E tool \in tools : process_job_render_png(p, tool)
    \/ \E tool \in tools : process_job_render_stl(p, tool)
    \/ process_job_setex_final(p)
    \/ process_job_setex_final_raises(p)
    \/ run_except(p)

NextStore ==
    \/ \E j \in Jobs, code \in codes : submit_write_text(j, code, "both")
    \/ \E j \in Jobs : submit_lpush(j)
    \/ \E j \in Jobs : submit_setex(j)
    \/ \E p \in Procs : run_brpop(p)
    \/ \E p \in Procs : process_job_setex_processing(p)
    \/ \E p \in Procs : process_job_setex_processing_raises(p)
    \/ \E p \in Procs, tool \in tools : process_job_render_png(p, tool)
    \/ \E p \in Procs, tool \in tools : process_job_render_stl(p, tool)
    \/ \E p \in Procs : process_job_setex_final(p)
    \/ \E p \in Procs : process_job_setex_final_raises(p)
    \/ \E p \in Procs : run_except(p)

\* a running processor is never kept from its next step
SpecStore ==
    InitStore /\ [][NextStore]_vars /\ \A p \in Procs : WF_vars(handle(p))

\* the setex of processor p raised and the exception is on its way to the
\* except of run()
Raised(p) == p \in running /\ ppc[p] = "except"

\* C29: a setex that raises in process_job does not end the loop: the
\* processor stays running, its next step is back at brpop with the queue
\* as it was and the job dropped, and every entry that is ever enqueued is
\* taken, so that its job ends with a final record or as the job that
\* raised; a job that raised is never in the queue again, never held again,
\* never rendered again and never given a final record.
C29_LoopSurvivesStoreFailure ==
    /\ [][/\ \A p \in Procs :
                /\ p \in running => p \in running' /\ ppc'[p] # "dead"
                /\ (Raised(p) /\ StepOf(p)) =>
                      /\ ppc'[p] = "brpop"
                      /\ render_queue' = render_queue
                      /\ \A j \in Jobs : Holds(p, j) => Abandoned(j)'
          /\ \A j \in Jobs :
                /\ (\E p \in Procs : Raised(p) /\ Holds(p, j)) => QueueCount(j) = 0
                /\ Abandoned(j) => Abandoned(j)' /\ results'[j] = results[j]]_vars
    /\ \A j \in Jobs : Enqueued(j) ~> (Finished(j) \/ Abandoned(j))

\* the status=processing write of an older job raised and the job was
\* dropped with its record still queued; the final write of a newer job
\* succeeded
C29_Witness ==
    \E i, j \in Jobs :
        /\ EnqueuedBefore(i, j)
        /\ Abandoned(i) /\ ~results[i].png.ran
        /\ Stored(i) /\ Record(i).status = "queued"
        /\ Finished(j) /\ final[j].status = "completed"

-----------------------------------------------------------------------------
(* Records that expire *)

\* one processor, jobs of format 'both', records that expire, clients that
\* ask for the status of any job at any time
InitExpiry == Start({"p1"}, OkRuns, {Script})

NextExpiry ==
    \/ \E j \in Jobs, code \in codes : submit_write_text(j, code, "both")
    \/ \E j \in Jobs : submit_lpush(j)
    \/ \E j \in Jobs : submit_setex(j)
    \/ \E j \in Jobs : expire(j)
    \/ \E j \in Jobs : get_render_status(j)
    \/ \E p \in Procs : run_brpop(p)
    \/ \E p \in Procs : process_job_setex_processing(p)
    \/ \E p \in Procs, tool \in tools : process_job_render_png(p, tool)
    \/ \E p \in Procs, tool \in tools : process_job_render_stl(p, tool)
    \/ \E p \in Procs : process_job_setex_final(p)

SpecExpiry == InitExpiry /\ [][NextExpiry]_vars

\* submit_render_job returned the id of job j, so its record was written,
\* and the record is gone: it has expired
Expired(j) == Submitted(j) /\ ~Stored(j)

\* the step is a status query for job j
Polls(j) ==
    /\ response' # response
    /\ response'.call = "get_render_status"
    /\ response'.job_id = j

\* C30: the record of a submitted job that has expired is never stored
\* again, so that after one NotFound every later status query for the job
\* is NotFound.
C30_ExpiredStaysGone ==
    [][\A j \in Jobs :
          /\ Expired(j) => Expired(j)'
          /\ Polls(j) => (NotFound(response') <=> ~Stored(j))]_vars

\* C30 (amended): a status query reports NotFound exactly when the record
\* is not stored; and the record of a submitted job that has expired is
\* never stored again once the job's entry is neither in the queue nor held
\* by a processor.  (While the entry is still queued the record comes back:
\* the processor that takes the entry writes job:{job_id} anew.)
C30_ExpiredStaysGoneOnceTaken ==
    [][\A j \in Jobs :
          /\ (Expired(j) /\ QueueCount(j) = 0 /\ \A p \in Procs : ~Holds(p, j))
                => Expired(j)'
          /\ Polls(j) => (NotFound(response') <=> ~Stored(j))]_vars

\* a finished job whose record has expired, and the last status query, for
\* that job, answered 404
C30_Witness ==
    \E j \in Jobs :
        /\ Finished(j) /\ Expired(j)
        /\ response.call = "get_render_status" /\ response.job_id = j
        /\ NotFound(response)

-----------------------------------------------------------------------------
(* The script file, the queue entry and the sweeper *)

\* one processor, preview-only jobs, and the sweeper of the backend over the
\* same data directory, with more than the retention age passing
InitScript == Start({"p1"}, OkRuns, {Script})

\* cleanup_old_files is a synchronous call made on the backend's event loop
\* (main.py line 54): a run begins only when no handler is running, and a
\* submission begins only when no run is in progress; the processor is
\* another process and takes its steps at any time.
NextScript ==
    \/ \E j \in Jobs, code \in codes :
          sweep.pc = "idle" /\ submit_write_text(j, code, "png")
    \/ \E j \in Jobs : submit_lpush(j)
    \/ \E j \in Jobs : submit_setex(j)
    \/ \E p \in Procs : run_brpop(p)
    \/ \E p \in Procs : process_job_setex_processing(p)
    \/ \E p \in Procs, tool \in tools : process_job_render_png(p, tool)
    \/ \E p \in Procs : process_job_skip_stl(p)
    \/ \E p \in Procs : process_job_setex_final(p)
    \/ ~LoopBusy /\ cleanup_begin
    \/ cleanup_iterdir
    \/ cleanup_file
    \/ cleanup_return
    \/ tick_retention

SpecScript == InitScript /\ [][NextScript]_vars

\* a run of the sweeper, finished or in progress, has deleted a file
SweeperDeleted ==
    \/ sweep.deleted_count > 0
    \/ \E k \in 1..Len(sweeps) : sweeps[k].result.deleted > 0

\* the step removes the script of job j as cleanup_old_files does: it is the
\* file the run is at in scad_files, and its st_mtime is before the cutoff
SweptAway(j) ==
    /\ sweep.pc = "files"
    /\ sweep.directory = "scad_files"
    /\ Head(sweep.todo) = j
    /\ mtime[<<"scad_files", j>>] < sweep.cutoff_time
    /\ sweep'.deleted_count = sweep.deleted_count + 1

\* C31: the entry of a job is pushed only when its script file is there;
\* a script file goes away only by a step of the sweeper that deletes it
\* for its age; so when a processor takes an entry from the queue the
\* script of the job is in scad_files, unless the sweeper has deleted it.
C31_ScriptWrittenBeforeEntry ==
    [][\A j \in Jobs :
          /\ QueueCount(j)' > QueueCount(j) => j \in scad_files
          /\ (j \in scad_files /\ j \notin scad_files') => SweptAway(j)
          /\ (\E p \in Procs : Holds(p, j)' /\ ~Holds(p, j)) =>
                \/ j \in scad_files
                \/ SweeperDeleted
          /\ (Enqueued(j)' /\ ~SweeperDeleted') => j \in scad_files']_vars

\* the processor has taken the entry of a job whose script is there, while
\* the script of an older job, enqueued too, has been deleted by the sweeper
C31_Witness ==
    \E i, j \in Jobs, p \in Procs :
        /\ Holds(p, j) /\ ppc[p] = "process_job"
        /\ j \in scad_files
        /\ Enqueued(i) /\ i \notin scad_files
        /\ SweeperDeleted

-----------------------------------------------------------------------------
(* Two preview renders on one host *)

\* C32: while the openscad subprocess of a render_png call is running, an X
\* server serves display :99; the end of another render_png call never
\* takes the display away from it.
C32_DisplayLivesThroughRender ==
    \A p \in Procs : calls[p].openscad = "running" => display # "none"

====
